---- MODULE Spec2Model ----
(***************************************************************************)
(* Model of part2_assignment: the belts solver (belts/main.py) and the     *)
(* factory solver (factory/main.py).                                       *)
(*                                                                         *)
(* Quantities are exact integers (the code uses floats): every comparison  *)
(* against the 1e-9 tolerance of belts/main.py is then a comparison        *)
(* against 0.  Flows apportioned to parallel edges are rationals; they are *)
(* kept as numerators over one common denominator (flow_den).              *)
(*                                                                         *)
(* Node names are sequences of tokens, so that the "__in"/"__out" suffixes *)
(* and the split at the first "__" are computed as the code computes them. *)
(***************************************************************************)
EXTENDS Integers, Sequences, FiniteSets, TLC

VARIABLES
    data,              \* the problem read from stdin
    pc,                \* position in solve: "start", "maxflow", "done"
    flow_graph,        \* the auxiliary network of solve
    total_demand,      \* D, the capacity leaving the super-source
    flow_dict,         \* the flow of the max-flow kernel on the auxiliary arcs
    edge_flow_values,  \* flow_value of solve line 126, per input edge
    result,            \* the response of solve
    fdata,             \* factory: the problem read from stdin
    fpc,               \* factory: position in solve: "start", "fallback", "done"
    solution_vector,   \* factory: x of the last successful linprog call
    fresult            \* factory: the response of solve

belts_vars == <<data, pc, flow_graph, total_demand, flow_dict, edge_flow_values, result>>

factory_vars == <<fdata, fpc, solution_vector, fresult>>

vars == <<belts_vars, factory_vars>>

----------------------------------------------------------------------------
(* Bounds of the input space. *)
MaxEdges == 2
MaxVal == 1
MaxSupply == 2

(* belts/main.py line 7, in integer units: x > 1e-9 iff x > 0. *)
NUMERICAL_TOLERANCE == 0

----------------------------------------------------------------------------
(* Generic helpers. *)
Range(s) == {s[i] : i \in DOMAIN s}

Min(a, b) == IF a <= b THEN a ELSE b

Abs(x) == IF x < 0 THEN -x ELSE x

RECURSIVE SumSeq(_)
SumSeq(s) == IF s = <<>> THEN 0 ELSE Head(s) + SumSeq(Tail(s))

RECURSIVE ProdSeq(_)
ProdSeq(s) == IF s = <<>> THEN 1 ELSE Head(s) * ProdSeq(Tail(s))

RECURSIVE SumSet(_, _)
SumSet(f, D) ==
    IF D = {} THEN 0
    ELSE LET x == CHOOSE y \in D : TRUE IN f[x] + SumSet(f, D \ {x})

(* Order of the tokens of a name, as Python orders the strings they stand  *)
(* for: "_" sorts before the lower-case letters.                           *)
TokenOrder == <<"__", "a", "b", "s", "t", "x">>

TokRank(tok) ==
    IF \E i \in DOMAIN TokenOrder : TokenOrder[i] = tok
    THEN CHOOSE i \in DOMAIN TokenOrder : TokenOrder[i] = tok
    ELSE 0

(* Python's str <: lexicographic, a proper prefix sorts first. *)
RECURSIVE NameLess(_, _)
NameLess(x, y) ==
    IF y = <<>> THEN FALSE
    ELSE IF x = <<>> THEN TRUE
    ELSE IF TokRank(Head(x)) # TokRank(Head(y)) THEN TokRank(Head(x)) < TokRank(Head(y))
    ELSE NameLess(Tail(x), Tail(y))

(* sorted(set): the elements of a set of names in increasing order. *)
RECURSIVE SortedNames(_)
SortedNames(D) ==
    IF D = {} THEN <<>>
    ELSE LET m == CHOOSE x \in D : \A y \in D \ {x} : NameLess(x, y)
         IN <<m>> \o SortedNames(D \ {m})

----------------------------------------------------------------------------
(* Belts: the input space. *)
A == <<"a">>
S == <<"s">>
T == <<"t">>

SUPER_SOURCE == <<"__", "SUPER_SRC", "__">>
SUPER_SINK == <<"__", "SUPER_SNK", "__">>

NodeList == <<S, A, T>>

(* Endpoints an input edge may have, in the order the edges of a problem   *)
(* are listed (not the order of the names, so that the sort of the output  *)
(* has work to do).                                                        *)
EdgeEndList == <<<<S, A>>, <<S, T>>, <<A, T>>>>

Amounts == 0..MaxVal

NumAmounts == Cardinality(Amounts)

(* An edge is drawn by its code: endpoints, lo and hi. *)
EdgeOfCode(c) ==
    [from |-> EdgeEndList[(c \div (NumAmounts * NumAmounts)) + 1][1],
     to |-> EdgeEndList[(c \div (NumAmounts * NumAmounts)) + 1][2],
     lo |-> (c \div NumAmounts) % NumAmounts,
     hi |-> c % NumAmounts]

(* Every choice with lo <= hi, and the invalid ones with hi one below lo. *)
EdgeCodes ==
    {c \in 0..(Len(EdgeEndList) * NumAmounts * NumAmounts - 1) :
        EdgeOfCode(c).hi >= EdgeOfCode(c).lo - 1}

(* Edge lists of up to MaxEdges edges, parallel edges included; of the     *)
(* lists that differ only in the order of their edges one is drawn.        *)
EdgeLists ==
    UNION {{[i \in 1..n |-> EdgeOfCode(cs[i])] :
              cs \in {x \in [1..n -> EdgeCodes] : \A i \in 1..(n - 1) : x[i] <= x[i + 1]}} :
           n \in 0..MaxEdges}

(* No node cap, one on the inner node, or one (of 0, the tightest) on the  *)
(* source or on the sink, which solve does not split.                      *)
CapLists ==
    {<<>>} \cup {<<[name |-> A, cap |-> c]>> : c \in Amounts}
           \cup {<<[name |-> n, cap |-> 0]>> : n \in {S, T}}

SourceLists == {<<[name |-> S, supply |-> s]>> : s \in 0..MaxSupply}

(* Scenario 2 of the specification and test_infeasible_belt_network. *)
BottleneckScenario ==
    [nodes |-> NodeList,
     edges |-> <<[from |-> S, to |-> A, lo |-> 0, hi |-> 100],
                 [from |-> A, to |-> T, lo |-> 0, hi |-> 20]>>,
     node_caps |-> <<>>,
     sources |-> <<[name |-> S, supply |-> 50]>>,
     sink |-> T]

(* A chain whose inner node has a name with "__" in it: a__b. *)
AB == <<"a", "__", "b">>

UnderscoreProblems ==
    {[nodes |-> <<S, AB, T>>,
      edges |-> <<[from |-> S, to |-> AB, lo |-> 0, hi |-> h1],
                  [from |-> AB, to |-> T, lo |-> 0, hi |-> h2]>>,
      node_caps |-> cs, sources |-> ss, sink |-> T] :
        h1 \in Amounts, h2 \in Amounts,
        cs \in {<<>>} \cup {<<[name |-> AB, cap |-> c]>> : c \in Amounts},
        ss \in SourceLists}

BeltProblems ==
    {[nodes |-> NodeList, edges |-> es, node_caps |-> cs, sources |-> ss, sink |-> T] :
        es \in EdgeLists, cs \in CapLists, ss \in SourceLists}
    \cup {BottleneckScenario}
    \cup UnderscoreProblems

----------------------------------------------------------------------------
(* BeltsSolver.__init__ *)
network_nodes(d) == d.nodes

network_edges(d) == d.edges

node_capacity_map(d) ==
    [n \in {d.node_caps[i].name : i \in DOMAIN d.node_caps} |->
        LET last == CHOOSE i \in DOMAIN d.node_caps :
                        /\ d.node_caps[i].name = n
                        /\ \A j \in DOMAIN d.node_caps :
                               d.node_caps[j].name = n => j <= i
        IN d.node_caps[last].cap]

source_supply_map(d) ==
    [n \in {d.sources[i].name : i \in DOMAIN d.sources} |->
        LET last == CHOOSE i \in DOMAIN d.sources :
                        /\ d.sources[i].name = n
                        /\ \A j \in DOMAIN d.sources :
                               d.sources[j].name = n => j <= i
        IN d.sources[last].supply]

sink_node(d) == d.sink

total_supply_amount(d) ==
    SumSet(source_supply_map(d), DOMAIN source_supply_map(d))

(* BeltsSolver._get_internal_node_maps *)
(* A split rule that forgets the exemption of the sources. *)
IsSplit_SourcesToo(d, node) ==
    /\ \E i \in DOMAIN d.node_caps : d.node_caps[i].name = node
    /\ node # sink_node(d)

HasCap(d, node) == \E i \in DOMAIN d.node_caps : d.node_caps[i].name = node

IsSource(d, node) == \E i \in DOMAIN d.sources : d.sources[i].name = node

IsSplit(d, node) ==
    /\ HasCap(d, node)
    /\ ~IsSource(d, node)
    /\ node # sink_node(d)

internal_node_map(d) ==
    [node \in Range(network_nodes(d)) |->
        IF IsSplit(d, node) THEN node \o <<"__", "in">> ELSE node]

external_node_map(d) ==
    [node \in Range(network_nodes(d)) |->
        IF IsSplit(d, node) THEN node \o <<"__", "out">> ELSE node]

----------------------------------------------------------------------------
(* BeltsSolver.solve, lines 46-60: validation and the edges grouped by     *)
(* their mapped endpoints.                                                 *)
reduced_capacity(edge) == edge.hi - edge.lo

(* A validation with a tolerance of a whole unit. *)
InvalidEdge_Lenient(edge) == edge.hi + 1 < edge.lo

InvalidEdge(edge) == edge.hi + NUMERICAL_TOLERANCE < edge.lo

(* The edges the validation loop reaches: all of them, or those up to the  *)
(* first one with hi < lo, where solve returns.                            *)
HasInvalidEdge(d) == \E i \in DOMAIN network_edges(d) : InvalidEdge(network_edges(d)[i])

FirstInvalidEdge(d) ==
    CHOOSE i \in DOMAIN network_edges(d) :
        /\ InvalidEdge(network_edges(d)[i])
        /\ \A j \in 1..(i - 1) : ~InvalidEdge(network_edges(d)[j])

ErrorMessage(edge) == <<"edge ", edge.from, "->", edge.to, " has hi < lo">>

(* The first key a dict lookup of the solver does not find, or <<>> when   *)
(* none fails: the sink (line 24, in the constructor); an endpoint of an   *)
(* edge that is not a node (lines 56-57), unless that edge or an earlier   *)
(* one is rejected for hi < lo first (line 53); a node cap on a name that  *)
(* is not a node (line 82).                                                *)
UnknownEndpoint(d, edge) ==
    edge.from \notin Range(network_nodes(d)) \/ edge.to \notin Range(network_nodes(d))

FirstBadEdge(d) ==
    LET bad == {i \in DOMAIN d.edges : InvalidEdge(d.edges[i]) \/ UnknownEndpoint(d, d.edges[i])}
    IN IF bad = {} THEN 0 ELSE CHOOSE i \in bad : \A j \in bad : i <= j

UnknownCaps(d) ==
    {i \in DOMAIN d.node_caps : d.node_caps[i].name \notin Range(network_nodes(d))}

BeltsMissingKey(d) ==
    IF "sink" \notin DOMAIN d THEN <<"sink">>
    ELSE IF FirstBadEdge(d) # 0
        THEN LET edge == d.edges[FirstBadEdge(d)]
             IN IF InvalidEdge(edge) THEN <<>>
                ELSE IF edge.from \notin Range(network_nodes(d)) THEN edge.from
                ELSE edge.to
    ELSE IF UnknownCaps(d) # {}
        THEN d.node_caps[CHOOSE i \in UnknownCaps(d) : \A j \in UnknownCaps(d) : i <= j].name
    ELSE <<>>

EdgeKey(d, i) ==
    <<external_node_map(d)[network_edges(d)[i].from],
      internal_node_map(d)[network_edges(d)[i].to]>>

(* Keys of mapped_edge_pairs, in insertion order. *)
RECURSIVE PairKeysFrom(_, _, _)
PairKeysFrom(d, i, acc) ==
    IF i > Len(network_edges(d)) THEN acc
    ELSE IF EdgeKey(d, i) \in Range(acc) THEN PairKeysFrom(d, i + 1, acc)
    ELSE PairKeysFrom(d, i + 1, Append(acc, EdgeKey(d, i)))

PairKeys(d) == PairKeysFrom(d, 1, <<>>)

(* mapped_edge_pairs[key]: the indices of the edges of one group, in order. *)
RECURSIVE GroupFrom(_, _, _)
GroupFrom(d, key, i) ==
    IF i > Len(network_edges(d)) THEN <<>>
    ELSE IF EdgeKey(d, i) = key THEN <<i>> \o GroupFrom(d, key, i + 1)
    ELSE GroupFrom(d, key, i + 1)

mapped_edge_pairs(d, key) == GroupFrom(d, key, 1)

(* A merged capacity that counts only the first edge of the group. *)
total_reduced_cap_First(d, key) ==
    reduced_capacity(network_edges(d)[mapped_edge_pairs(d, key)[1]])

total_reduced_cap(d, key) ==
    SumSeq([k \in DOMAIN mapped_edge_pairs(d, key) |->
               reduced_capacity(network_edges(d)[mapped_edge_pairs(d, key)[k]])])

(* Lines 62-67: B(v) = sum lo_in - sum lo_out. *)
node_imbalance(d, v) ==
    SumSeq([i \in DOMAIN network_edges(d) |->
               (IF network_edges(d)[i].to = v THEN network_edges(d)[i].lo ELSE 0)
             - (IF network_edges(d)[i].from = v THEN network_edges(d)[i].lo ELSE 0)])

(* Lines 69-74: R(v) = B(v) + supply(v) - demand(v). *)
node_requirement(d, node) ==
    LET supply == IF node \in DOMAIN source_supply_map(d)
                  THEN source_supply_map(d)[node] ELSE 0
        demand == IF node = sink_node(d) THEN total_supply_amount(d) ELSE 0
    IN node_imbalance(d, node) + supply - demand

(* Lines 76-100: the auxiliary network.  A DiGraph keeps one arc per pair  *)
(* of nodes; an arc added again replaces the capacity (f @@ g: f wins).    *)
CapArcs(d) ==
    [arc \in {<<internal_node_map(d)[n], external_node_map(d)[n]>> :
                n \in {m \in DOMAIN node_capacity_map(d) :
                          internal_node_map(d)[m] # external_node_map(d)[m]}} |->
        LET n == CHOOSE m \in DOMAIN node_capacity_map(d) :
                     arc = <<internal_node_map(d)[m], external_node_map(d)[m]>>
        IN node_capacity_map(d)[n]]

EdgeArcs(d) == [key \in Range(PairKeys(d)) |-> total_reduced_cap(d, key)]

SuperArcs(d) ==
    LET pos == {n \in Range(network_nodes(d)) : node_requirement(d, n) > NUMERICAL_TOLERANCE}
        neg == {n \in Range(network_nodes(d)) : node_requirement(d, n) < -NUMERICAL_TOLERANCE}
    IN [arc \in {<<SUPER_SOURCE, internal_node_map(d)[n]>> : n \in pos}
                \cup {<<external_node_map(d)[n], SUPER_SINK>> : n \in neg} |->
          IF arc[1] = SUPER_SOURCE
          THEN node_requirement(d, CHOOSE n \in pos : internal_node_map(d)[n] = arc[2])
          ELSE -node_requirement(d, CHOOSE n \in neg : external_node_map(d)[n] = arc[1])]

BuildFlowGraph(d) ==
    [nodes |-> Range(internal_node_map(d)) \cup Range(external_node_map(d))
                 \cup {SUPER_SOURCE, SUPER_SINK},
     cap |-> SuperArcs(d) @@ EdgeArcs(d) @@ CapArcs(d)]

(* Lines 91-98: D, the capacity leaving the super-source. *)
TotalDemand(d) ==
    SumSeq([i \in DOMAIN network_nodes(d) |->
               IF node_requirement(d, network_nodes(d)[i]) > NUMERICAL_TOLERANCE
               THEN node_requirement(d, network_nodes(d)[i]) ELSE 0])

----------------------------------------------------------------------------
(* nx.maximum_flow (lines 102-105).  The kernel is a library: the model    *)
(* takes augmenting steps on the residual network, in any order and of any *)
(* size, until no augmenting path is left; the flow reached is a maximum   *)
(* flow of the auxiliary network.                                          *)
Arcs(g) == DOMAIN g.cap

FlowOn(g, f, u, v) == IF <<u, v>> \in Arcs(g) THEN f[<<u, v>>] ELSE 0

CapOn(g, u, v) == IF <<u, v>> \in Arcs(g) THEN g.cap[<<u, v>>] ELSE 0

(* Residual capacity of u -> v: unused capacity plus flow that can be undone. *)
ResidualCap(g, f, u, v) == (CapOn(g, u, v) - FlowOn(g, f, u, v)) + FlowOn(g, f, v, u)

RECURSIVE PathsFrom(_, _, _)
PathsFrom(g, f, p) ==
    IF p[Len(p)] = SUPER_SINK THEN {p}
    ELSE UNION {PathsFrom(g, f, Append(p, w)) :
                  w \in {x \in g.nodes : /\ x \notin Range(p)
                                         /\ ResidualCap(g, f, p[Len(p)], x) > 0}}

AugmentingPaths(g, f) == PathsFrom(g, f, <<SUPER_SOURCE>>)

RECURSIVE Bottleneck(_, _, _)
Bottleneck(g, f, p) ==
    IF Len(p) = 2 THEN ResidualCap(g, f, p[1], p[2])
    ELSE Min(ResidualCap(g, f, p[1], p[2]), Bottleneck(g, f, Tail(p)))

OnPath(p, u, v) == \E i \in 1..(Len(p) - 1) : p[i] = u /\ p[i + 1] = v

(* Push amt along p: flow against the step is undone first. *)
PushFlow(g, f, p, amt) ==
    [arc \in Arcs(g) |->
        IF OnPath(p, arc[1], arc[2])
        THEN f[arc] + (amt - Min(amt, FlowOn(g, f, arc[2], arc[1])))
        ELSE IF OnPath(p, arc[2], arc[1])
        THEN f[arc] - Min(amt, f[arc])
        ELSE f[arc]]

FlowValue(g, f) ==
    SumSet([arc \in Arcs(g) |-> IF arc[1] = SUPER_SOURCE THEN f[arc] ELSE 0], Arcs(g))

----------------------------------------------------------------------------
(* BeltsSolver.solve, lines 112-131: the flows of the input edges. *)

(* Common denominator of the apportioned flows: every total_reduced_cap    *)
(* divides it.                                                             *)
flow_den(d) ==
    ProdSeq([k \in DOMAIN PairKeys(d) |->
                IF total_reduced_cap(d, PairKeys(d)[k]) > NUMERICAL_TOLERANCE
                THEN total_reduced_cap(d, PairKeys(d)[k]) ELSE 1])

(* An apportioning that gives every edge of a group the whole flow of the  *)
(* group's arc.                                                           *)
original_edge_flows_Unshared(d, g, f, i) ==
    FlowOn(g, f, EdgeKey(d, i)[1], EdgeKey(d, i)[2]) * flow_den(d)

(* Lines 113-122: share = (reduced / total_reduced_cap) * flow_on_mapped,  *)
(* as a numerator over flow_den.                                           *)
original_edge_flows(d, g, f, i) ==
    LET key == EdgeKey(d, i)
        flow_on_mapped == FlowOn(g, f, key[1], key[2])
        total == total_reduced_cap(d, key)
    IN IF total > NUMERICAL_TOLERANCE
       THEN (reduced_capacity(network_edges(d)[i]) * flow_on_mapped * flow_den(d)) \div total
       ELSE 0

(* A lift that forgets to add lo back. *)
flow_value_NoLift(d, g, f, i) == original_edge_flows(d, g, f, i)

(* Line 126, as a numerator over flow_den. *)
flow_value(d, g, f, i) ==
    original_edge_flows(d, g, f, i) + network_edges(d)[i].lo * flow_den(d)

(* Line 130: the sort key (from, to). *)
KeyLess(x, y) ==
    \/ NameLess(x.from, y.from)
    \/ x.from = y.from /\ NameLess(x.to, y.to)

(* list.sort is stable: an entry goes after the entries that do not sort   *)
(* after it.                                                               *)
RECURSIVE InsertSorted(_, _)
InsertSorted(sorted, e) ==
    IF sorted = <<>> THEN <<e>>
    ELSE IF KeyLess(e, Head(sorted)) THEN <<e>> \o sorted
    ELSE <<Head(sorted)>> \o InsertSorted(Tail(sorted), e)

RECURSIVE SortFlows(_)
SortFlows(seq) ==
    IF seq = <<>> THEN <<>>
    ELSE InsertSorted(SortFlows(SubSeq(seq, 1, Len(seq) - 1)), seq[Len(seq)])

(* Lines 124-130. *)
RECURSIVE FinalFlowsFrom(_, _, _)
FinalFlowsFrom(d, values, i) ==
    IF i > Len(network_edges(d)) THEN <<>>
    ELSE (IF values[i] > NUMERICAL_TOLERANCE
          THEN <<[from |-> network_edges(d)[i].from,
                  to |-> network_edges(d)[i].to,
                  flow |-> values[i]]>>
          ELSE <<>>)
         \o FinalFlowsFrom(d, values, i + 1)

final_flows(d, values) == SortFlows(FinalFlowsFrom(d, values, 1))

----------------------------------------------------------------------------
(* BeltsSolver._format_infeasible *)

(* nx.minimum_cut (lines 135-137): the saturated arcs of the residual      *)
(* network are removed and the sink side of the cut is every node that     *)
(* still has a path to the super-sink; the source side is the rest.  The   *)
(* sink side is the same for every maximum flow.                           *)
RECURSIVE ReachSinkFrom(_, _, _)
ReachSinkFrom(g, f, seen) ==
    LET more == {u \in g.nodes \ seen : \E v \in seen : ResidualCap(g, f, u, v) > 0}
    IN IF more = {} THEN seen ELSE ReachSinkFrom(g, f, seen \cup more)

sink_reachable(g, f) == ReachSinkFrom(g, f, {SUPER_SINK})

source_reachable(g, f) == g.nodes \ sink_reachable(g, f)

(* Lines 142-145: mapped_node.split('__', 1)[0] *)
RECURSIVE BeforeFirstSep(_)
BeforeFirstSep(m) ==
    IF m = <<>> THEN <<>>
    ELSE IF Head(m) = "__" THEN <<>>
    ELSE <<Head(m)>> \o BeforeFirstSep(Tail(m))

base_node(mapped_node) ==
    IF "__" \in Range(mapped_node) THEN BeforeFirstSep(mapped_node) ELSE mapped_node

(* Lines 138-146. *)
reachable_original_nodes(g, f) ==
    {base_node(m) : m \in source_reachable(g, f) \ {SUPER_SOURCE, SUPER_SINK}}

(* A deficit with the operands swapped. *)
deficit_amount_Swapped(required_demand, max_flow_value) == max_flow_value - required_demand

(* Line 149. *)
deficit_amount(required_demand, max_flow_value) == required_demand - max_flow_value

(* Lines 151-162 (the nodes of the input are distinct). *)
tight_node_capacities(d, g, f) ==
    {node \in Range(network_nodes(d)) :
        /\ node \in reachable_original_nodes(g, f)
        /\ internal_node_map(d)[node] # external_node_map(d)[node]
        /\ CapOn(g, internal_node_map(d)[node], external_node_map(d)[node])
             - FlowOn(g, f, internal_node_map(d)[node], external_node_map(d)[node])
             <= NUMERICAL_TOLERANCE}

(* Lines 164-175. *)
RECURSIVE TightEdgesFrom(_, _, _, _, _)
TightEdgesFrom(d, g, f, deficit, k) ==
    IF k > Len(PairKeys(d)) THEN <<>>
    ELSE LET key == PairKeys(d)[k]
             items == mapped_edge_pairs(d, key)
         IN (IF /\ key[1] \in source_reachable(g, f)
                /\ key[2] \notin source_reachable(g, f)
                /\ CapOn(g, key[1], key[2]) - FlowOn(g, f, key[1], key[2])
                     <= NUMERICAL_TOLERANCE
             THEN [j \in DOMAIN items |->
                      [from |-> network_edges(d)[items[j]].from,
                       to |-> network_edges(d)[items[j]].to,
                       flow_needed |-> deficit]]
             ELSE <<>>)
            \o TightEdgesFrom(d, g, f, deficit, k + 1)

----------------------------------------------------------------------------
(* The responses of solve. *)
NoResult ==
    [status |-> "none", message |-> <<>>, max_flow_per_min |-> 0, flows |-> <<>>,
     flow_den |-> 1, cut_reachable |-> <<>>,
     deficit |-> [demand_balance |-> 0, tight_nodes |-> <<>>, tight_edges |-> <<>>]]

ErrorResult(msg) == [NoResult EXCEPT !.status = "error", !.message = msg]

OkResult(d, values) ==
    [NoResult EXCEPT !.status = "ok",
                     !.max_flow_per_min = total_supply_amount(d),
                     !.flows = final_flows(d, values),
                     !.flow_den = flow_den(d)]

InfeasibleResult(d, g, f, max_flow_value, required_demand) ==
    [NoResult EXCEPT
        !.status = "infeasible",
        !.cut_reachable = SortedNames(reachable_original_nodes(g, f)),
        !.deficit = [demand_balance |-> deficit_amount(required_demand, max_flow_value),
                     tight_nodes |-> SortedNames(tight_node_capacities(d, g, f)),
                     tight_edges |-> TightEdgesFrom(d, g, f,
                                        deficit_amount(required_demand, max_flow_value), 1)]]

EmptyGraph == [nodes |-> {}, cap |-> <<>>]

(* While the belts command runs there is no factory problem, and no       *)
(* response of the factory solver yet.                                     *)
IdleFactory ==
    [machines |-> <<>>, recipes |-> <<>>, modules |-> <<>>,
     limits |-> [raw_supply_per_min |-> <<>>, max_machines |-> <<>>],
     target |-> [item |-> "iron_gear", rate_per_min |-> 0]]

NoFactoryResult ==
    [status |-> "none", message |-> "", per_recipe_crafts_per_min |-> <<>>,
     per_machine_counts |-> <<>>,
     raw_consumption_per_min |-> <<>>, max_feasible_target_per_min |-> <<0, 1>>,
     bottleneck_hint |-> <<>>]

----------------------------------------------------------------------------
(* The belts command: one run of BeltsSolver(data).solve(). *)
Init ==
    /\ data \in BeltProblems
    /\ pc = "start"
    /\ flow_graph = EmptyGraph
    /\ total_demand = 0
    /\ flow_dict = <<>>
    /\ edge_flow_values = <<>>
    /\ result = NoResult
    /\ fdata = IdleFactory
    /\ fpc = "idle"
    /\ solution_vector = <<>>
    /\ fresult = NoFactoryResult

(* Lines 48-54: an edge with hi < lo ends solve with an error. *)
RejectEdge ==
    /\ pc = "start"
    /\ BeltsMissingKey(data) = <<>>
    /\ HasInvalidEdge(data)
    /\ result' = ErrorResult(ErrorMessage(network_edges(data)[FirstInvalidEdge(data)]))
    /\ pc' = "done"
    /\ UNCHANGED <<data, flow_graph, total_demand, flow_dict, edge_flow_values, factory_vars>>

(* Lines 44-100: the auxiliary network is built; the kernel starts from    *)
(* the zero flow.                                                          *)
BuildNetwork ==
    /\ pc = "start"
    /\ BeltsMissingKey(data) = <<>>
    /\ ~HasInvalidEdge(data)
    /\ flow_graph' = BuildFlowGraph(data)
    /\ total_demand' = TotalDemand(data)
    /\ flow_dict' = [arc \in Arcs(flow_graph') |-> 0]
    /\ pc' = "maxflow"
    /\ UNCHANGED <<data, edge_flow_values, result, factory_vars>>

(* Lines 102-105: one augmenting step of the kernel. *)
Augment ==
    /\ pc = "maxflow"
    /\ \E p \in AugmentingPaths(flow_graph, flow_dict) :
         \E amt \in 1..Bottleneck(flow_graph, flow_dict, p) :
            flow_dict' = PushFlow(flow_graph, flow_dict, p, amt)
    /\ UNCHANGED <<data, pc, flow_graph, total_demand, edge_flow_values, result, factory_vars>>

(* The kernel returns once the super-sink has no augmenting path left. *)
MaxFlowReached == pc = "maxflow" /\ SUPER_SOURCE \notin sink_reachable(flow_graph, flow_dict)

Feasible(max_flow_value, demand) == ~(Abs(max_flow_value - demand) > NUMERICAL_TOLERANCE)

(* Lines 109-131: the flow meets the demand. *)
ReturnOk ==
    /\ MaxFlowReached
    /\ Feasible(FlowValue(flow_graph, flow_dict), total_demand)
    /\ edge_flow_values' =
         [i \in DOMAIN network_edges(data) |-> flow_value(data, flow_graph, flow_dict, i)]
    /\ result' = OkResult(data, edge_flow_values')
    /\ pc' = "done"
    /\ UNCHANGED <<data, flow_graph, total_demand, flow_dict, factory_vars>>

(* Lines 109-110 and _format_infeasible. *)
ReturnInfeasible ==
    /\ MaxFlowReached
    /\ ~Feasible(FlowValue(flow_graph, flow_dict), total_demand)
    /\ result' = InfeasibleResult(data, flow_graph, flow_dict,
                                  FlowValue(flow_graph, flow_dict), total_demand)
    /\ pc' = "done"
    /\ UNCHANGED <<data, flow_graph, total_demand, flow_dict, edge_flow_values, factory_vars>>

Next == RejectEdge \/ BuildNetwork \/ Augment \/ ReturnOk \/ ReturnInfeasible

Spec == Init /\ [][Next]_vars

----------------------------------------------------------------------------
(* Properties of the belts responses. *)
Done == pc = "done"

Ok == Done /\ result.status = "ok"

Infeasible == Done /\ result.status = "infeasible"

NodeSet == Range(data.nodes)

Supplies == SumSeq([i \in DOMAIN data.sources |-> data.sources[i].supply])

SupplyOf(n) ==
    SumSeq([i \in DOMAIN data.sources |->
               IF data.sources[i].name = n THEN data.sources[i].supply ELSE 0])

CapOf(n) == (CHOOSE i \in DOMAIN data.node_caps : data.node_caps[i].name = n)

(* Sums over the flows of the response, as numerators over result.flow_den. *)
Inflow(n) ==
    SumSeq([k \in DOMAIN result.flows |->
               IF result.flows[k].to = n THEN result.flows[k].flow ELSE 0])

Outflow(n) ==
    SumSeq([k \in DOMAIN result.flows |->
               IF result.flows[k].from = n THEN result.flows[k].flow ELSE 0])

CappedInner(n) ==
    /\ \E i \in DOMAIN data.node_caps : data.node_caps[i].name = n
    /\ \A i \in DOMAIN data.sources : data.sources[i].name # n
    /\ n # data.sink

WellFormed ==
    \A i \in DOMAIN data.edges : 0 <= data.edges[i].lo /\ data.edges[i].lo <= data.edges[i].hi

(* C1: in an ok response the flow entering a capped node that is neither a *)
(* source nor the sink is at most the node's cap.                          *)
C1_NodeCapsRespected ==
    Ok => \A n \in NodeSet :
             CappedInner(n) => Inflow(n) <= data.node_caps[CapOf(n)].cap * result.flow_den

(* A well-formed problem has a solution: flows within [lo, hi], balanced   *)
(* at every node, within every node cap.  The data are integers, so a      *)
(* solution exists iff an integral one does.                               *)
MaxHi == IF data.edges = <<>> THEN 0
         ELSE CHOOSE h \in {data.edges[i].hi : i \in DOMAIN data.edges} :
                  \A i \in DOMAIN data.edges : data.edges[i].hi <= h

InOf(x, n) == SumSeq([i \in DOMAIN data.edges |-> IF data.edges[i].to = n THEN x[i] ELSE 0])

OutOf(x, n) == SumSeq([i \in DOMAIN data.edges |-> IF data.edges[i].from = n THEN x[i] ELSE 0])

IsSolution(x) ==
    /\ \A i \in DOMAIN data.edges : data.edges[i].lo <= x[i] /\ x[i] <= data.edges[i].hi
    /\ \A n \in NodeSet :
        /\ n # data.sink => OutOf(x, n) - InOf(x, n) = SupplyOf(n)
        /\ n = data.sink => InOf(x, n) - OutOf(x, n) = Supplies
        /\ CappedInner(n) => InOf(x, n) <= data.node_caps[CapOf(n)].cap

HasSolution == \E x \in [DOMAIN data.edges -> 0..MaxHi] : IsSolution(x)

(* C2: a well-formed problem that has a solution is never answered         *)
(* infeasible.                                                             *)
C2_InfeasibleOnlyWithoutSolution ==
    (Infeasible /\ WellFormed) => ~HasSolution

C2_Witness ==
    /\ Ok /\ HasSolution /\ Supplies > 0
    /\ \E n \in NodeSet : CappedInner(n) /\ Inflow(n) > 0

(* C3: in an ok response the flows are balanced: inflow = outflow at every *)
(* node that is neither a source nor the sink, each source sends out its   *)
(* supply, and the sink receives max_flow_per_min = the sum of supplies.   *)
C3_FlowsBalanced ==
    Ok => /\ result.max_flow_per_min = Supplies
          /\ \A n \in NodeSet :
               IF n = data.sink
               THEN Inflow(n) - Outflow(n) = result.max_flow_per_min * result.flow_den
               ELSE Outflow(n) - Inflow(n) = SupplyOf(n) * result.flow_den

C3_Witness ==
    /\ Ok /\ Supplies > 0 /\ Len(result.flows) >= 2
    /\ \E i \in DOMAIN data.edges : data.edges[i].lo > 0

(* C4: in an ok response every input edge, parallel edges included, is     *)
(* assigned a flow within [lo, hi]; the response lists the edges with a    *)
(* positive flow.                                                          *)
C4_FlowsWithinBounds ==
    Ok => /\ \A i \in DOMAIN data.edges :
               /\ data.edges[i].lo * result.flow_den <= edge_flow_values[i]
               /\ edge_flow_values[i] <= data.edges[i].hi * result.flow_den
          /\ \A u \in NodeSet, v \in NodeSet :
               Cardinality({k \in DOMAIN result.flows :
                               result.flows[k].from = u /\ result.flows[k].to = v})
               = Cardinality({i \in DOMAIN data.edges :
                               /\ data.edges[i].from = u /\ data.edges[i].to = v
                               /\ edge_flow_values[i] > 0})

(* Two parallel edges share the flow of their arc, one of them has lo = hi. *)
C4_Witness ==
    /\ Ok
    /\ \E i \in DOMAIN data.edges, j \in DOMAIN data.edges :
         /\ i # j
         /\ data.edges[i].from = data.edges[j].from /\ data.edges[i].to = data.edges[j].to
         /\ data.edges[i].lo = data.edges[i].hi /\ data.edges[i].lo > 0
         /\ data.edges[j].lo < data.edges[j].hi
         /\ edge_flow_values[j] > data.edges[j].lo * result.flow_den

(* C5: in an infeasible response the sink is not in cut_reachable. *)
C5_SinkNotInCut ==
    (Infeasible /\ WellFormed) => data.sink \notin Range(result.cut_reachable)

(* Directed paths of the input graph. *)
RECURSIVE ReachableFrom(_)
ReachableFrom(seen) ==
    LET more == {data.edges[i].to : i \in {j \in DOMAIN data.edges : data.edges[j].from \in seen}}
                \ seen
    IN IF more = {} THEN seen ELSE ReachableFrom(seen \cup more)

StrandedSource(n) ==
    /\ SupplyOf(n) > 0
    /\ data.sink \notin ReachableFrom({n})

(* C6: a source with positive supply and no directed path to the sink      *)
(* makes the response infeasible, with that source in cut_reachable.       *)
C6_StrandedSourceInCut ==
    (Done /\ WellFormed) =>
        \A n \in NodeSet :
            StrandedSource(n) => /\ result.status = "infeasible"
                                 /\ n \in Range(result.cut_reachable)

(* The value of a maximum flow of the auxiliary network, as the capacity   *)
(* of a minimum cut.                                                       *)
CutCapacity(g, side) ==
    SumSet([arc \in Arcs(g) |->
               IF arc[1] \in side /\ arc[2] \notin side THEN g.cap[arc] ELSE 0], Arcs(g))

MinCutValue(g) ==
    LET sides == {X \cup {SUPER_SOURCE} : X \in SUBSET (g.nodes \ {SUPER_SOURCE, SUPER_SINK})}
    IN CHOOSE c \in {CutCapacity(g, X) : X \in sides} :
          \A X \in sides : c <= CutCapacity(g, X)

PositiveRequirements ==
    SumSet([n \in NodeSet |->
               IF node_requirement(data, n) > 0 THEN node_requirement(data, n) ELSE 0], NodeSet)

(* C7: in an infeasible response demand_balance is D minus the maximum     *)
(* flow value of the auxiliary network and is positive; the chain with     *)
(* supply 50 and a last edge of hi 20 gives 30.                            *)
C7_DemandBalance ==
    /\ Infeasible =>
         /\ result.deficit.demand_balance = PositiveRequirements - MinCutValue(flow_graph)
         /\ result.deficit.demand_balance > 0
    /\ (Done /\ data = BottleneckScenario) =>
         /\ result.status = "infeasible"
         /\ result.deficit.demand_balance = 30

C7_Witness ==
    /\ Infeasible /\ data = BottleneckScenario
    /\ result.deficit.demand_balance = 30

(* C8: an edge with hi < lo makes the response an error whose message      *)
(* names the endpoints of such an edge (the first in the input); there are *)
(* no flows and no cut diagnosis, and the max-flow step is never reached.  *)
C8_InvalidEdgeIsError ==
    (\E i \in DOMAIN data.edges : data.edges[i].hi < data.edges[i].lo) =>
        /\ pc # "maxflow"
        /\ flow_graph = EmptyGraph
        /\ flow_dict = <<>>
        /\ Done =>
             /\ result.status = "error"
             /\ \E i \in DOMAIN data.edges :
                  /\ data.edges[i].hi < data.edges[i].lo
                  /\ \A j \in 1..(i - 1) : data.edges[j].hi >= data.edges[j].lo
                  /\ result.message
                       = <<"edge ", data.edges[i].from, "->", data.edges[i].to, " has hi < lo">>
             /\ result.flows = <<>>
             /\ result.cut_reachable = <<>>
             /\ result.deficit = NoResult.deficit

(* Two edges with hi < lo and different endpoints: the first is named. *)
C8_Witness ==
    /\ Done /\ result.status = "error"
    /\ \E i \in DOMAIN data.edges, j \in DOMAIN data.edges :
         /\ i < j
         /\ data.edges[i].hi < data.edges[i].lo /\ data.edges[j].hi < data.edges[j].lo
         /\ data.edges[i].from # data.edges[j].from

----------------------------------------------------------------------------
(* Factory: exact rational arithmetic.  A rational is <<numerator,         *)
(* denominator>> in lowest terms with a positive denominator.              *)
RECURSIVE GCD(_, _)
GCD(a, b) == IF b = 0 THEN a ELSE GCD(b, a % b)

RNorm(n, d) ==
    LET g == GCD(Abs(n), Abs(d))
        sgn == IF d < 0 THEN -1 ELSE 1
    IN <<(sgn * n) \div g, (sgn * d) \div g>>

Rat(n) == <<n, 1>>

RAdd(x, y) == RNorm(x[1] * y[2] + y[1] * x[2], x[2] * y[2])

RNeg(x) == <<-x[1], x[2]>>

RSub(x, y) == RAdd(x, RNeg(y))

RMul(x, y) ==
    LET g1 == GCD(Abs(x[1]), y[2])
        g2 == GCD(Abs(y[1]), x[2])
    IN IF x[1] = 0 \/ y[1] = 0 THEN <<0, 1>>
       ELSE <<(x[1] \div g1) * (y[1] \div g2), (x[2] \div g2) * (y[2] \div g1)>>

RInv(x) == IF x[1] < 0 THEN <<-x[2], -x[1]>> ELSE <<x[2], x[1]>>

RDiv(x, y) == RMul(x, RInv(y))

RLe(x, y) == RSub(x, y)[1] <= 0

RLt(x, y) == RSub(x, y)[1] < 0

RECURSIVE Dot(_, _)
Dot(a, x) ==
    IF a = <<>> THEN <<0, 1>>
    ELSE RAdd(RMul(Head(a), Head(x)), Dot(Tail(a), Tail(x)))

(* A bound of an inequality row: a rational, or float('inf'). *)
Finite(v) == [inf |-> FALSE, val |-> v]

Infinite == [inf |-> TRUE, val |-> <<0, 1>>]

----------------------------------------------------------------------------
(* scipy.optimize.linprog(c, A_ub, b_ub, A_eq, b_eq, bounds=(0, None)):    *)
(* minimise c.x subject to A_ub x <= b_ub, A_eq x = b_eq and x >= 0.  The  *)
(* kernel is a library: the model solves the program exactly, for one or   *)
(* two variables, by enumerating the vertices of the feasible region; the  *)
(* kernel returns a vertex of minimum cost, any of them when several tie.  *)
Unit(n, i) == [j \in 1..n |-> IF j = i THEN <<-1, 1>> ELSE <<0, 1>>]

(* All constraints as rows a.x <= b or a.x = b, the bounds x >= 0 included; *)
(* a row with an infinite bound constrains nothing.                        *)
LpRows(n, A_ub, b_ub, A_eq, b_eq) ==
    [k \in DOMAIN SelectSeq([i \in DOMAIN A_ub |-> i], LAMBDA i : ~b_ub[i].inf) |->
        LET i == SelectSeq([j \in DOMAIN A_ub |-> j], LAMBDA j : ~b_ub[j].inf)[k]
        IN [a |-> A_ub[i], b |-> b_ub[i].val, eq |-> FALSE]]
    \o [i \in DOMAIN A_eq |-> [a |-> A_eq[i], b |-> b_eq[i], eq |-> TRUE]]
    \o [i \in 1..n |-> [a |-> Unit(n, i), b |-> <<0, 1>>, eq |-> FALSE]]

Satisfies(row, x) ==
    IF row.eq THEN Dot(row.a, x) = row.b ELSE RLe(Dot(row.a, x), row.b)

(* The points where n of the rows hold with equality (Cramer's rule). *)
Det2(r1, r2) == RSub(RMul(r1.a[1], r2.a[2]), RMul(r1.a[2], r2.a[1]))

TightPoints(n, rows) ==
    IF n = 1
    THEN {<<RDiv(rows[i].b, rows[i].a[1])>> : i \in {j \in DOMAIN rows : rows[j].a[1][1] # 0}}
    ELSE {<<RDiv(RSub(RMul(rows[i].b, rows[j].a[2]), RMul(rows[i].a[2], rows[j].b)),
                 Det2(rows[i], rows[j])),
            RDiv(RSub(RMul(rows[i].a[1], rows[j].b), RMul(rows[i].b, rows[j].a[1])),
                 Det2(rows[i], rows[j]))>> :
            <<i, j>> \in {q \in (DOMAIN rows) \X (DOMAIN rows) :
                            q[1] < q[2] /\ Det2(rows[q[1]], rows[q[2]])[1] # 0}}

Vertices(n, rows) ==
    {x \in TightPoints(n, rows) : \A i \in DOMAIN rows : Satisfies(rows[i], x)}

(* The directions along which the feasible region is unbounded, cut by     *)
(* x1 + ... + xn = 1.                                                      *)
RayRows(n, rows) ==
    [i \in DOMAIN rows |-> [rows[i] EXCEPT !.b = <<0, 1>>]]
    \o <<[a |-> [j \in 1..n |-> <<1, 1>>], b |-> <<1, 1>>, eq |-> TRUE]>>

Unbounded(n, c, rows) ==
    \E d \in Vertices(n, RayRows(n, rows)) : RLt(Dot(c, d), <<0, 1>>)

(* success, and the optimal vertices: linprog returns one of them as x. *)
linprog(c, A_ub, b_ub, A_eq, b_eq) ==
    LET n == Len(c)
        rows == LpRows(n, A_ub, b_ub, A_eq, b_eq)
        vs == Vertices(n, rows)
    IN IF vs = {} \/ Unbounded(n, c, rows)
       THEN [success |-> FALSE, x |-> {}]
       ELSE [success |-> TRUE,
             x |-> {v \in vs : \A w \in vs : RLe(Dot(c, v), Dot(c, w))}]

----------------------------------------------------------------------------
(* Factory: the input space. *)

(* The names of the factory problems, in the order of Python's sorted(). *)
NameOrder ==
    <<"assembler", "furnace", "iron_gear", "iron_gear_cast", "iron_ore", "iron_plate", "scrap">>

NameRank(x) == CHOOSE i \in DOMAIN NameOrder : NameOrder[i] = x

RECURSIVE Sorted(_)
Sorted(D) ==
    IF D = {} THEN <<>>
    ELSE LET m == CHOOSE x \in D : \A y \in D : NameRank(x) <= NameRank(y)
         IN <<m>> \o Sorted(D \ {m})

GearRecipe ==
    [machine |-> "assembler", time_s |-> <<1, 2>>,
     in |-> [m \in {"iron_plate"} |-> 2], out |-> [m \in {"iron_gear"} |-> 1]]

SmeltRecipe ==
    [machine |-> "furnace", time_s |-> <<1, 1>>,
     in |-> [m \in {"iron_ore"} |-> 1], out |-> [m \in {"iron_plate"} |-> 1]]

(* A gear recipe with a by-product: scrap is an output only, so it is     *)
(* neither raw, nor an intermediate, nor the target.                       *)
ScrapGearRecipe ==
    [machine |-> "assembler", time_s |-> <<1, 2>>,
     in |-> [m \in {"iron_plate"} |-> 2],
     out |-> [m \in {"iron_gear", "scrap"} |-> 1]]

(* A second, slower way to make gears, on the furnace. *)
CastRecipe ==
    [machine |-> "furnace", time_s |-> <<1, 1>>,
     in |-> [m \in {"iron_plate"} |-> 2], out |-> [m \in {"iron_gear"} |-> 1]]

(* One recipe (iron_plate is raw), the same with a by-product, two ways to *)
(* make the target, or a chain of two recipes (iron_ore is raw, iron_plate *)
(* an intermediate).                                                       *)
RecipeBooks ==
    {[r \in {"iron_gear"} |-> GearRecipe],
     [r \in {"iron_gear"} |-> ScrapGearRecipe],
     [r \in {"iron_gear", "iron_gear_cast"} |-> IF r = "iron_gear" THEN GearRecipe ELSE CastRecipe],
     [r \in {"iron_gear", "iron_plate"} |-> IF r = "iron_gear" THEN GearRecipe ELSE SmeltRecipe]}

MachinePark ==
    [m \in {"assembler", "furnace"} |->
        [crafts_per_min |-> IF m = "assembler" THEN 60 ELSE 30]]

MachinesOf(recipes) == [m \in {recipes[r].machine : r \in DOMAIN recipes} |-> MachinePark[m]]

RawOf(recipes) == IF "iron_plate" \in DOMAIN recipes THEN "iron_ore" ELSE "iron_plate"

(* max_machines: a machine type has no entry, or one of these caps. *)
MachineCaps == {-1, 0, 1, 10}

CapMaps(recipes) == UNION {[D -> MachineCaps] : D \in SUBSET DOMAIN MachinesOf(recipes)}

(* raw_supply_per_min: no entry for the raw material, or one of these. *)
RawSupplies == {0, 200, 5000, 20000}

TargetRates == {10, 5000, 10000}

PartialMaps(key, values) == {<<>>} \cup {[k \in {key} |-> v] : v \in values}

(* limits: both mappings, or only one of them. *)
FactoryLimits ==
    LET caps == UNION {CapMaps(r) : r \in RecipeBooks}
        supplies == UNION {PartialMaps(RawOf(r), RawSupplies) : r \in RecipeBooks}
    IN {[raw_supply_per_min |-> s, max_machines |-> c] : s \in supplies, c \in caps}
       \cup {[raw_supply_per_min |-> s] : s \in supplies}
       \cup {[max_machines |-> c] : c \in caps}

FactoryProblems ==
    {[machines |-> MachinesOf(recipes),
      recipes |-> recipes,
      modules |-> <<>>,
      limits |-> limits,
      target |-> [item |-> "iron_gear", rate_per_min |-> rate]] :
        recipes \in RecipeBooks,
        limits \in FactoryLimits,
        rate \in TargetRates}

(* Scenario 5 of the specification: machine cap 1, raw supply 200, target  *)
(* 5000.                                                                   *)
MachineCappedScenario ==
    [machines |-> [m \in {"assembler"} |-> [crafts_per_min |-> 60]],
     recipes |-> [r \in {"iron_gear"} |-> GearRecipe],
     modules |-> <<>>,
     limits |-> [raw_supply_per_min |-> [m \in {"iron_plate"} |-> 200],
                 max_machines |-> [m \in {"assembler"} |-> 1]],
     target |-> [item |-> "iron_gear", rate_per_min |-> 5000]]

----------------------------------------------------------------------------
(* FactorySolver.__init__ *)

(* dict.get(key, default) *)
Get(f, key, default) == IF key \in DOMAIN f THEN f[key] ELSE default

recipe_list(d) == Sorted(DOMAIN d.recipes)

machine_type_list(d) == Sorted(DOMAIN d.machines)

(* _identify_and_categorize_materials *)
all_input_materials(d) == UNION {DOMAIN d.recipes[r].in : r \in DOMAIN d.recipes}

all_output_materials(d) == UNION {DOMAIN d.recipes[r].out : r \in DOMAIN d.recipes}

raw_materials(d) == Sorted(all_input_materials(d) \ all_output_materials(d))

intermediate_materials(d) == Sorted(all_input_materials(d) \cap all_output_materials(d))

all_materials(d) == Sorted(all_input_materials(d) \cup all_output_materials(d))

(* _calculate_effective_crafts: base_speed * (1 + speed) * 60.0 / time_s *)
(* A rate that leaves out the factor 60. *)
effective_crafts_per_min_No60(d, recipe_name) ==
    LET machine_type == d.recipes[recipe_name].machine
        base_speed == Rat(d.machines[machine_type].crafts_per_min)
        time_seconds == d.recipes[recipe_name].time_s
        speed_modifier == Get(Get(d.modules, machine_type, <<>>), "speed", <<0, 1>>)
    IN RDiv(RMul(base_speed, RAdd(<<1, 1>>, speed_modifier)), time_seconds)

effective_crafts_per_min(d, recipe_name) ==
    LET machine_type == d.recipes[recipe_name].machine
        base_speed == Rat(d.machines[machine_type].crafts_per_min)
        time_seconds == d.recipes[recipe_name].time_s
        speed_modifier == Get(Get(d.modules, machine_type, <<>>), "speed", <<0, 1>>)
    IN RDiv(RMul(RMul(base_speed, RAdd(<<1, 1>>, speed_modifier)), <<60, 1>>), time_seconds)

(* _get_productivity_multipliers *)
productivity_multipliers(d, recipe_name) ==
    LET machine_type == d.recipes[recipe_name].machine
    IN RAdd(<<1, 1>>, Get(Get(d.modules, machine_type, <<>>), "prod", <<0, 1>>))

numerical_tolerance == <<1, 1000000>>

(* out(r, m) * prod_mult(r) and in(r, m) *)
output_amount(d, recipe_name, material) ==
    RMul(Rat(Get(d.recipes[recipe_name].out, material, 0)),
         productivity_multipliers(d, recipe_name))

input_amount(d, recipe_name, material) == Rat(Get(d.recipes[recipe_name].in, material, 0))

----------------------------------------------------------------------------
(* _build_objective_function *)
objective_coefficients(d) ==
    [i \in DOMAIN recipe_list(d) |->
        RDiv(<<1, 1>>, effective_crafts_per_min(d, recipe_list(d)[i]))]

(* _build_inequality_constraints, lines 93-99: one row per machine type. *)
MachineCapRow(d, machine_type) ==
    [i \in DOMAIN recipe_list(d) |->
        IF d.recipes[recipe_list(d)[i]].machine = machine_type
        THEN RDiv(<<1, 1>>, effective_crafts_per_min(d, recipe_list(d)[i]))
        ELSE <<0, 1>>]

MachineCapBound(d, machine_type) ==
    IF machine_type \in DOMAIN d.limits.max_machines
    THEN Finite(Rat(d.limits.max_machines[machine_type])) ELSE Infinite

(* A supply row with the sign of the net consumption flipped. *)
RawSupplyRow_Flipped(d, raw) ==
    [i \in DOMAIN recipe_list(d) |->
        RSub(output_amount(d, recipe_list(d)[i], raw), input_amount(d, recipe_list(d)[i], raw))]

(* Lines 101-111: net consumption of a raw material <= its supply. *)
RawSupplyRow(d, raw) ==
    [i \in DOMAIN recipe_list(d) |->
        RSub(input_amount(d, recipe_list(d)[i], raw), output_amount(d, recipe_list(d)[i], raw))]

RawSupplyBound(d, raw) ==
    IF raw \in DOMAIN d.limits.raw_supply_per_min
    THEN Finite(Rat(d.limits.raw_supply_per_min[raw])) ELSE Infinite

(* Lines 113-123: net production of a raw material <= 0. *)
RawNonProductionRow(d, raw) ==
    [i \in DOMAIN recipe_list(d) |->
        RSub(output_amount(d, recipe_list(d)[i], raw), input_amount(d, recipe_list(d)[i], raw))]

(* The "type" the code attaches to the rows of each block (lines 99, 111,  *)
(* 123).                                                                   *)
MachineRowType == "machine_cap"

(* The supply rows tagged with the type of a cap. *)
RawSupplyRowType_Cap == "raw_cap"

RawSupplyRowType == "raw_net_nonpos"

RawNonProductionRowType == "raw_cap"

inequality_matrix(d) ==
    [i \in DOMAIN machine_type_list(d) |-> MachineCapRow(d, machine_type_list(d)[i])]
    \o [i \in DOMAIN raw_materials(d) |-> RawSupplyRow(d, raw_materials(d)[i])]
    \o [i \in DOMAIN raw_materials(d) |-> RawNonProductionRow(d, raw_materials(d)[i])]

inequality_bounds(d) ==
    [i \in DOMAIN machine_type_list(d) |-> MachineCapBound(d, machine_type_list(d)[i])]
    \o [i \in DOMAIN raw_materials(d) |-> RawSupplyBound(d, raw_materials(d)[i])]
    \o [i \in DOMAIN raw_materials(d) |-> Finite(<<0, 1>>)]

constraint_info(d) ==
    [i \in DOMAIN machine_type_list(d) |->
        [type |-> MachineRowType, name |-> machine_type_list(d)[i]]]
    \o [i \in DOMAIN raw_materials(d) |->
        [type |-> RawSupplyRowType, name |-> raw_materials(d)[i]]]
    \o [i \in DOMAIN raw_materials(d) |->
        [type |-> RawNonProductionRowType, name |-> raw_materials(d)[i]]]

(* Net production of a material per craft of each recipe. *)
NetProductionRow(d, material) ==
    [i \in DOMAIN recipe_list(d) |->
        RSub(output_amount(d, recipe_list(d)[i], material),
             input_amount(d, recipe_list(d)[i], material))]

(* _build_equality_constraints *)
materials_to_balance(d) ==
    Sorted(Range(intermediate_materials(d)) \cup {d.target.item})

equality_matrix(d) ==
    [k \in DOMAIN materials_to_balance(d) |-> NetProductionRow(d, materials_to_balance(d)[k])]

(* Bounds that forget the rate of the target. *)
equality_bounds_NoRate(d) == [k \in DOMAIN materials_to_balance(d) |-> <<0, 1>>]

equality_bounds(d) ==
    [k \in DOMAIN materials_to_balance(d) |->
        IF materials_to_balance(d)[k] = d.target.item
        THEN Rat(d.target.rate_per_min) ELSE <<0, 1>>]

(* solve, lines 31-32: the primary program. *)
PrimaryLP(d) ==
    linprog(objective_coefficients(d), inequality_matrix(d), inequality_bounds(d),
            equality_matrix(d), equality_bounds(d))

(* _maximize_target, lines 169-195. *)
MaximizeObjective(d) ==
    [i \in DOMAIN recipe_list(d) |-> RNeg(NetProductionRow(d, d.target.item)[i])]

MaximizeBalanced(d) ==
    SelectSeq(all_materials(d),
              LAMBDA m : ~(m \in Range(raw_materials(d)) \/ m = d.target.item))

MaximizeEqualityRows(d) ==
    [k \in DOMAIN MaximizeBalanced(d) |-> NetProductionRow(d, MaximizeBalanced(d)[k])]

MaximizeEqualityRhs(d) == [k \in DOMAIN MaximizeBalanced(d) |-> <<0, 1>>]

FallbackLP(d) ==
    linprog(MaximizeObjective(d), inequality_matrix(d), inequality_bounds(d),
            MaximizeEqualityRows(d), MaximizeEqualityRhs(d))

(* Lines 200-208. *)
achieved_target(d, x) == Dot(NetProductionRow(d, d.target.item), x)

(* _get_bottleneck_hints *)
slack_values(d, x) ==
    [i \in DOMAIN inequality_matrix(d) |->
        IF inequality_bounds(d)[i].inf THEN Infinite
        ELSE Finite(RSub(inequality_bounds(d)[i].val, Dot(inequality_matrix(d)[i], x)))]

(* slack_val <= max(self.numerical_tolerance, 1e-6) *)
IsBinding(slack_val) ==
    /\ ~slack_val.inf
    /\ slack_val.val[1] <= slack_val.val[2] \div numerical_tolerance[2]

HintFor(info) ==
    IF info.type = "machine_cap" THEN <<info.name, " cap">>
    ELSE IF info.type = "raw_cap" THEN <<info.name, " supply">>
    ELSE IF info.type = "raw_net_nonpos" THEN <<info.name, " production restriction">>
    ELSE <<info.name>>

(* Lines 237-243: duplicates removed, the first occurrence kept. *)
RECURSIVE Unique(_, _)
Unique(hints, seen) ==
    IF hints = <<>> THEN <<>>
    ELSE IF Head(hints) \in seen THEN Unique(Tail(hints), seen)
    ELSE <<Head(hints)>> \o Unique(Tail(hints), seen \cup {Head(hints)})

bottleneck_hints(d, x) ==
    LET binding == SelectSeq([i \in DOMAIN constraint_info(d) |-> i],
                             LAMBDA i : IsBinding(slack_values(d, x)[i]))
    IN Unique([k \in DOMAIN binding |-> HintFor(constraint_info(d)[binding[k]])], {})

(* _format_success_output *)
per_machine_counts(d, x) ==
    [mtype \in DOMAIN d.machines |->
        Dot(MachineCapRow(d, mtype), x)]

raw_consumption_per_min(d, x) ==
    [raw \in Range(raw_materials(d)) |-> Dot(RawSupplyRow(d, raw), x)]

SuccessOutput(d, x) ==
    [NoFactoryResult EXCEPT
        !.status = "ok",
        !.per_recipe_crafts_per_min =
            [r \in DOMAIN d.recipes |->
                x[CHOOSE i \in DOMAIN recipe_list(d) : recipe_list(d)[i] = r]],
        !.per_machine_counts = per_machine_counts(d, x),
        !.raw_consumption_per_min = raw_consumption_per_min(d, x)]

(* main, lines 282-284: an exception of the solver becomes an error. *)
ErrorOutput(msg) == [NoFactoryResult EXCEPT !.status = "error", !.message = msg]

InfeasibleOutput(max_target, hints) ==
    [NoFactoryResult EXCEPT !.status = "infeasible",
                            !.max_feasible_target_per_min = max_target,
                            !.bottleneck_hint = hints]

----------------------------------------------------------------------------
(* The factory command: one run of FactorySolver(data).solve(). *)
IdleBelts ==
    [nodes |-> <<>>, edges |-> <<>>, node_caps |-> <<>>, sources |-> <<>>, sink |-> T]

FactoryInit ==
    /\ fdata \in FactoryProblems \cup {MachineCappedScenario}
    /\ fpc = "start"
    /\ solution_vector = <<>>
    /\ fresult = NoFactoryResult
    /\ data = IdleBelts
    /\ pc = "idle"
    /\ flow_graph = EmptyGraph
    /\ total_demand = 0
    /\ flow_dict = <<>>
    /\ edge_flow_values = <<>>
    /\ result = NoResult

(* The first key the solver looks up and does not find, or "" when it     *)
(* finds them all: the machine of a recipe (line 148, in the constructor), *)
(* the two mappings of limits (lines 98 and 110, once per machine type and *)
(* per raw material), the target (line 54).                                *)
UnknownMachines(d) == {d.recipes[r].machine : r \in DOMAIN d.recipes} \ DOMAIN d.machines

MissingKey(d) ==
    IF UnknownMachines(d) # {} THEN CHOOSE m \in UnknownMachines(d) : TRUE
    ELSE IF machine_type_list(d) # <<>> /\ "max_machines" \notin DOMAIN d.limits
        THEN "max_machines"
    ELSE IF raw_materials(d) # <<>> /\ "raw_supply_per_min" \notin DOMAIN d.limits
        THEN "raw_supply_per_min"
    ELSE IF "target" \notin DOMAIN d THEN "target"
    ELSE ""

(* main, lines 277-284: the KeyError becomes an error response. *)
KeyErrorRaised ==
    /\ fpc = "start"
    /\ MissingKey(fdata) # ""
    /\ fresult' = ErrorOutput(MissingKey(fdata))
    /\ fpc' = "done"
    /\ UNCHANGED <<fdata, solution_vector, belts_vars>>

(* A limit that is absent makes its bound float('inf') (lines 98, 110).  *)
(* linprog validates its arguments before it solves, and the installed    *)
(* scipy decides whether an infinite entry of b_ub is an invalid input: it *)
(* either raises, and main answers with an error, or it takes the row as   *)
(* unconstrained, which is the case of the four actions below.             *)
HasInfiniteBound(d) == \E i \in DOMAIN inequality_bounds(d) : inequality_bounds(d)[i] = Infinite

LinprogRejects ==
    /\ fpc = "start"
    /\ MissingKey(fdata) = ""
    /\ HasInfiniteBound(fdata)
    /\ fresult' = ErrorOutput("Invalid input for linprog")
    /\ fpc' = "done"
    /\ UNCHANGED <<fdata, solution_vector, belts_vars>>

(* solve, lines 31-35: the primary program has a solution. *)
PrimarySolved ==
    /\ fpc = "start"
    /\ MissingKey(fdata) = ""
    /\ PrimaryLP(fdata).success
    /\ \E x \in PrimaryLP(fdata).x :
         /\ solution_vector' = x
         /\ fresult' = SuccessOutput(fdata, x)
    /\ fpc' = "done"
    /\ UNCHANGED <<fdata, belts_vars>>

(* solve, lines 34-37: it has none; the fallback is solved next. *)
PrimaryFailed ==
    /\ fpc = "start"
    /\ MissingKey(fdata) = ""
    /\ ~PrimaryLP(fdata).success
    /\ fpc' = "fallback"
    /\ UNCHANGED <<fdata, solution_vector, fresult, belts_vars>>

(* solve, lines 38-39: the fallback program has no solution either. *)
FallbackFailed ==
    /\ fpc = "fallback"
    /\ ~FallbackLP(fdata).success
    /\ fresult' = InfeasibleOutput(<<0, 1>>, <<>>)
    /\ fpc' = "done"
    /\ UNCHANGED <<fdata, solution_vector, belts_vars>>

(* solve, lines 41-42: the achievable target and the binding rows. *)
FallbackSolved ==
    /\ fpc = "fallback"
    /\ FallbackLP(fdata).success
    /\ \E x \in FallbackLP(fdata).x :
         /\ solution_vector' = x
         /\ fresult' = InfeasibleOutput(achieved_target(fdata, x), bottleneck_hints(fdata, x))
    /\ fpc' = "done"
    /\ UNCHANGED <<fdata, belts_vars>>

FactoryNext ==
    \/ KeyErrorRaised \/ LinprogRejects
    \/ PrimarySolved \/ PrimaryFailed
    \/ FallbackFailed \/ FallbackSolved

FactorySpec == FactoryInit /\ [][FactoryNext]_vars

----------------------------------------------------------------------------
(* Properties of the factory responses. *)
FactoryDone == fpc = "done"

FactoryInfeasible == FactoryDone /\ fresult.status = "infeasible"

(* The fallback program was solved: solution_vector is its optimum. *)
FallbackOptimum == FactoryInfeasible /\ solution_vector # <<>>

Hints == Range(fresult.bottleneck_hint)

TightAt(bound, lhs) == IsBinding(Finite(RSub(bound, lhs)))

(* The rows of the fallback program that bind at its optimum, by kind. *)
BindingMachineCap(m) ==
    /\ m \in DOMAIN fdata.limits.max_machines
    /\ TightAt(Rat(fdata.limits.max_machines[m]),
               Dot(MachineCapRow(fdata, m), solution_vector))

NetConsumption(raw) ==
    Dot([i \in DOMAIN recipe_list(fdata) |->
            RSub(input_amount(fdata, recipe_list(fdata)[i], raw),
                 output_amount(fdata, recipe_list(fdata)[i], raw))], solution_vector)

BindingRawSupply(raw) ==
    /\ raw \in DOMAIN fdata.limits.raw_supply_per_min
    /\ TightAt(Rat(fdata.limits.raw_supply_per_min[raw]), NetConsumption(raw))

BindingRawNonProduction(raw) == TightAt(<<0, 1>>, RNeg(NetConsumption(raw)))

(* C9: in an infeasible response every binding row of the fallback program *)
(* is reported with the label of its kind: "<machine> cap" for a machine   *)
(* cap, "<material> production restriction" for raw non-production,        *)
(* "<material> supply" for raw supply.                                     *)
C9_HintsLabelBindingRows ==
    FallbackOptimum =>
        /\ \A m \in DOMAIN fdata.machines :
             BindingMachineCap(m) <=> <<m, " cap">> \in Hints
        /\ \A raw \in Range(raw_materials(fdata)) :
             /\ BindingRawNonProduction(raw) <=> <<raw, " production restriction">> \in Hints
             /\ BindingRawSupply(raw) <=> <<raw, " supply">> \in Hints

(* C10 as stated: scenario 5 (machine cap 1, raw supply 200, target 5000)  *)
(* is infeasible with a positive max_feasible_target_per_min and a         *)
(* bottleneck list that contains "assembler cap".                          *)
C10_ScenarioReportsAssemblerCap ==
    (FactoryDone /\ fdata = MachineCappedScenario) =>
        /\ fresult.status = "infeasible"
        /\ RLt(<<0, 1>>, fresult.max_feasible_target_per_min)
        /\ <<"assembler", " cap">> \in Hints

(* C10 amended: scenario 5 is infeasible with max_feasible_target_per_min  *)
(* = 100 > 0; the raw supply of iron_plate binds, the machine cap does     *)
(* not, and the bottleneck list has one hint, about iron_plate, and no     *)
(* "assembler cap".                                                        *)
C10_ScenarioSupplyBinds ==
    (FactoryDone /\ fdata = MachineCappedScenario) =>
        /\ fresult.status = "infeasible"
        /\ fresult.max_feasible_target_per_min = <<100, 1>>
        /\ BindingRawSupply("iron_plate")
        /\ ~BindingMachineCap("assembler")
        /\ <<"assembler", " cap">> \notin Hints
        /\ Len(fresult.bottleneck_hint) = 1
        /\ fresult.bottleneck_hint[1][1] = "iron_plate"

C10_Witness ==
    /\ FactoryInfeasible /\ fdata = MachineCappedScenario
    /\ solution_vector = <<<<100, 1>>>>

(* The problem of test_infeasible_factory_scenario: supply 5000 of         *)
(* iron_plate, one assembler allowed, 5000 gears a minute wanted.          *)
IsSupplyCappedTest ==
    /\ fdata.recipes = [r \in {"iron_gear"} |-> GearRecipe]
    /\ fdata.limits = [raw_supply_per_min |-> [m \in {"iron_plate"} |-> 5000],
                       max_machines |-> [m \in {"assembler"} |-> 1]]
    /\ fdata.target.rate_per_min = 5000

ReferenceBalanced ==
    SelectSeq(materials_to_balance(fdata), LAMBDA m : m # fdata.target.item)

ReferenceLP ==
    linprog(MaximizeObjective(fdata), inequality_matrix(fdata), inequality_bounds(fdata),
            [k \in DOMAIN ReferenceBalanced |-> NetProductionRow(fdata, ReferenceBalanced[k])],
            [k \in DOMAIN ReferenceBalanced |-> <<0, 1>>])

(* C12: in an infeasible response max_feasible_target_per_min is the       *)
(* largest net production of the target over the plans that satisfy the    *)
(* other constraints of the primary program (intermediates balanced,       *)
(* machine caps, raw supply, raw non-production), by-products or not.      *)
C12_MaxTargetIsReferenceOptimum ==
    (FactoryInfeasible /\ ReferenceLP.success) =>
        \A x \in ReferenceLP.x :
            fresult.max_feasible_target_per_min = achieved_target(fdata, x)

(* Scenario 4 of the specification and test_feasible_factory_scenario:     *)
(* supply 200, ten assemblers allowed, 10 gears a minute wanted.           *)
IsTrivialFeasibleScenario ==
    /\ fdata.recipes = [r \in {"iron_gear"} |-> GearRecipe]
    /\ fdata.limits = [raw_supply_per_min |-> [m \in {"iron_plate"} |-> 200],
                       max_machines |-> [m \in {"assembler"} |-> 10]]
    /\ fdata.target.rate_per_min = 10

(* C13 as stated: scenario 4 returns ok with per_machine_counts.assembler  *)
(* equal to 10/120.                                                        *)
C13_ScenarioCountIsTenOver120 ==
    (FactoryDone /\ IsTrivialFeasibleScenario) =>
        /\ fresult.status = "ok"
        /\ fresult.per_machine_counts["assembler"] = <<1, 12>>

(* C13 amended: scenario 4 returns ok with 10 crafts a minute of           *)
(* iron_gear, 20 iron_plate a minute consumed, and                          *)
(* per_machine_counts.assembler equal to 10/7200, since one assembler runs *)
(* 60 * 60 / 0.5 = 7200 crafts a minute.                                   *)
C13_ScenarioCountIsTenOver7200 ==
    (FactoryDone /\ IsTrivialFeasibleScenario) =>
        /\ fresult.status = "ok"
        /\ fresult.per_recipe_crafts_per_min["iron_gear"] = <<10, 1>>
        /\ fresult.raw_consumption_per_min["iron_plate"] = <<20, 1>>
        /\ fresult.per_machine_counts["assembler"] = <<1, 720>>

C13_Witness ==
    /\ FactoryDone /\ IsTrivialFeasibleScenario
    /\ fresult.status = "ok"
    /\ solution_vector = <<<<10, 1>>>>

(* A plan gives every recipe its crafts a minute. *)
Recipes == DOMAIN fdata.recipes

RECURSIVE RSum(_, _)
RSum(f, D) ==
    IF D = {} THEN <<0, 1>>
    ELSE LET r == CHOOSE q \in D : TRUE IN RAdd(f[r], RSum(f, D \ {r}))

PlanNetProduction(x, m) ==
    RSum([r \in Recipes |->
            RMul(RSub(RMul(Rat(Get(fdata.recipes[r].out, m, 0)),
                           productivity_multipliers(fdata, r)),
                      Rat(Get(fdata.recipes[r].in, m, 0))), x[r])], Recipes)

PlanMachineCount(x, mtype) ==
    RSum([r \in Recipes |->
            IF fdata.recipes[r].machine = mtype
            THEN RDiv(x[r], effective_crafts_per_min(fdata, r)) ELSE <<0, 1>>], Recipes)

PlanTotalMachines(x) ==
    RSum([r \in Recipes |-> RDiv(x[r], effective_crafts_per_min(fdata, r))], Recipes)

IsPlan(x) ==
    /\ \A r \in Recipes : RLe(<<0, 1>>, x[r])
    /\ \A m \in Range(intermediate_materials(fdata)) \ {fdata.target.item} :
         PlanNetProduction(x, m) = <<0, 1>>
    /\ PlanNetProduction(x, fdata.target.item) = Rat(fdata.target.rate_per_min)
    /\ \A mtype \in DOMAIN fdata.machines :
         mtype \in DOMAIN fdata.limits.max_machines =>
            RLe(PlanMachineCount(x, mtype), Rat(fdata.limits.max_machines[mtype]))
    /\ \A raw \in Range(raw_materials(fdata)) :
         /\ RLe(PlanNetProduction(x, raw), <<0, 1>>)
         /\ raw \in DOMAIN fdata.limits.raw_supply_per_min =>
              RLe(RNeg(PlanNetProduction(x, raw)), Rat(fdata.limits.raw_supply_per_min[raw]))

(* Rates a rival plan may give a recipe: fractions of the target rate,     *)
(* what the allowed machines can craft, and what is then left of the rate. *)
RivalRates ==
    LET rate == Rat(fdata.target.rate_per_min)
        full == {RMul(Rat(c), effective_crafts_per_min(fdata, q)) :
                    c \in {0, 1, 10}, q \in Recipes}
        base == {RMul(rate, RNorm(k, 4)) : k \in 0..8} \cup full
    IN base \cup {RSub(rate, v) : v \in base}

RivalPlans == {y \in [Recipes -> RivalRates] : IsPlan(y)}

ReportedPlan == fresult.per_recipe_crafts_per_min

(* C14: an ok response reports an optimal plan: rates >= 0, intermediates  *)
(* balanced, the target produced at rate_per_min, machine counts within    *)
(* their caps, raw consumption between 0 and its supply, and no plan with  *)
(* fewer machines in total.                                                *)
C14_OkPlanIsOptimal ==
    (FactoryDone /\ fresult.status = "ok") =>
        /\ IsPlan(ReportedPlan)
        /\ \A mtype \in DOMAIN fdata.machines :
             fresult.per_machine_counts[mtype] = PlanMachineCount(ReportedPlan, mtype)
        /\ \A raw \in Range(raw_materials(fdata)) :
             /\ fresult.raw_consumption_per_min[raw] = RNeg(PlanNetProduction(ReportedPlan, raw))
             /\ RLe(<<0, 1>>, fresult.raw_consumption_per_min[raw])
        /\ \A y \in RivalPlans : RLe(PlanTotalMachines(ReportedPlan), PlanTotalMachines(y))

(* An ok response that mixes the two ways to make gears, with rivals that  *)
(* need more machines.                                                     *)
C14_Witness ==
    /\ FactoryDone /\ fresult.status = "ok"
    /\ ~HasInfiniteBound(fdata)
    /\ "iron_gear_cast" \in Recipes
    /\ RLt(<<0, 1>>, ReportedPlan["iron_gear"])
    /\ RLt(<<0, 1>>, ReportedPlan["iron_gear_cast"])
    /\ \E y \in RivalPlans : RLt(PlanTotalMachines(ReportedPlan), PlanTotalMachines(y))

(* A limit is absent: a machine type or a raw material has no entry, or a  *)
(* whole mapping of limits is missing.                                     *)
HasAbsentLimit ==
    \/ \E k \in {"max_machines", "raw_supply_per_min"} : k \notin DOMAIN fdata.limits
    \/ \E m \in DOMAIN fdata.machines : m \notin DOMAIN fdata.limits.max_machines
    \/ \E m \in Range(raw_materials(fdata)) : m \notin DOMAIN fdata.limits.raw_supply_per_min

(* C15: a problem with an absent limit, entry or mapping, is still         *)
(* answered with ok or infeasible, never with error.                       *)
C15_AbsentLimitsAreUnbounded ==
    (FactoryDone /\ fdata \in FactoryProblems /\ HasAbsentLimit) =>
        fresult.status \in {"ok", "infeasible"}

----------------------------------------------------------------------------
(* Both commands on any input, the malformed ones included. *)
X == <<"x">>

(* A belts problem with one defect: a source, the sink, a node cap or an   *)
(* edge endpoint named x, which is not a node, or no sink at all.          *)
MalformedBeltProblems ==
    LET base(es) == [nodes |-> NodeList, edges |-> es, node_caps |-> <<>>,
                     sources |-> <<[name |-> S, supply |-> 1]>>, sink |-> T]
    IN UNION {
         {[base(es) EXCEPT !.sources = <<[name |-> X, supply |-> 1]>>],
          [base(es) EXCEPT !.sink = X],
          [base(es) EXCEPT !.node_caps = <<[name |-> X, cap |-> 1]>>],
          [base(es) EXCEPT !.edges = es \o <<[from |-> S, to |-> X, lo |-> 0, hi |-> 1]>>],
          [base(es) EXCEPT !.edges = <<[from |-> X, to |-> T, lo |-> 0, hi |-> 1]>> \o es],
          [nodes |-> NodeList, edges |-> es, node_caps |-> <<>>,
           sources |-> <<[name |-> S, supply |-> 1]>>]} : es \in EdgeLists}

(* A factory problem without a target, or with a recipe on a machine that  *)
(* machines does not list.                                                 *)
MalformedFactoryProblems ==
    UNION {
        {[machines |-> q.machines, recipes |-> q.recipes, modules |-> q.modules,
          limits |-> q.limits],
         [q EXCEPT !.machines = [m \in {"smelter"} |-> [crafts_per_min |-> 60]]]} :
        q \in {r \in FactoryProblems : r.target.rate_per_min = 10}}

CommandInit ==
    \/ Init
    \/ FactoryInit
    \/ /\ data \in MalformedBeltProblems
       /\ pc = "start"
       /\ flow_graph = EmptyGraph
       /\ total_demand = 0
       /\ flow_dict = <<>>
       /\ edge_flow_values = <<>>
       /\ result = NoResult
       /\ fdata = IdleFactory
       /\ fpc = "idle"
       /\ solution_vector = <<>>
       /\ fresult = NoFactoryResult
    \/ /\ fdata \in MalformedFactoryProblems
       /\ fpc = "start"
       /\ solution_vector = <<>>
       /\ fresult = NoFactoryResult
       /\ data = IdleBelts
       /\ pc = "idle"
       /\ flow_graph = EmptyGraph
       /\ total_demand = 0
       /\ flow_dict = <<>>
       /\ edge_flow_values = <<>>
       /\ result = NoResult

(* main, lines 189-195: the KeyError becomes an error response. *)
BeltsKeyError ==
    /\ pc = "start"
    /\ BeltsMissingKey(data) # <<>>
    /\ result' = ErrorResult(BeltsMissingKey(data))
    /\ pc' = "done"
    /\ UNCHANGED <<data, flow_graph, total_demand, flow_dict, edge_flow_values, factory_vars>>

CommandNext == BeltsKeyError \/ Next \/ FactoryNext

CommandSpec == CommandInit /\ [][CommandNext]_vars

(* The names a belts problem uses that are not among its nodes. *)
UnknownBeltNames(d) ==
    ({d.edges[i].from : i \in DOMAIN d.edges} \cup {d.edges[i].to : i \in DOMAIN d.edges}
        \cup {d.sources[i].name : i \in DOMAIN d.sources}
        \cup {d.node_caps[i].name : i \in DOMAIN d.node_caps}
        \cup (IF "sink" \in DOMAIN d THEN {d.sink} ELSE {}))
    \ Range(d.nodes)

MalformedBelts(d) == "sink" \notin DOMAIN d \/ UnknownBeltNames(d) # {}

MalformedFactory(d) == "target" \notin DOMAIN d \/ UnknownMachines(d) # {}

(* C16: a malformed input, or one that uses unknown names, is answered     *)
(* with status error and a message, by both commands.                      *)
C16_MalformedInputIsError ==
    /\ (pc = "done" /\ MalformedBelts(data)) =>
            (result.status = "error" /\ result.message # <<>>)
    /\ (fpc = "done" /\ MalformedFactory(fdata)) =>
            (fresult.status = "error" /\ fresult.message # "")

----------------------------------------------------------------------------
(* Parallel edges. *)
RECURSIVE EdgesBetween(_, _, _)
EdgesBetween(u, v, i) ==
    IF i > Len(data.edges) THEN <<>>
    ELSE (IF data.edges[i].from = u /\ data.edges[i].to = v THEN <<i>> ELSE <<>>)
         \o EdgesBetween(u, v, i + 1)

ParallelGroups ==
    {G \in {EdgesBetween(u, v, 1) : u \in NodeSet, v \in NodeSet} : Len(G) >= 2}

MergedFlow(G) == FlowOn(flow_graph, flow_dict, EdgeKey(data, G[1])[1], EdgeKey(data, G[1])[2])

MergedCap(G) == CapOn(flow_graph, EdgeKey(data, G[1])[1], EdgeKey(data, G[1])[2])

SumReduced(G) == SumSeq([k \in DOMAIN G |-> data.edges[G[k]].hi - data.edges[G[k]].lo])

SumLo(G) == SumSeq([k \in DOMAIN G |-> data.edges[G[k]].lo])

(* The flows of the response between the endpoints of a group, in order. *)
ReportedFlows(G) ==
    LET sel == SelectSeq(result.flows,
                         LAMBDA e : /\ e.from = data.edges[G[1]].from
                                    /\ e.to = data.edges[G[1]].to)
    IN [k \in DOMAIN sel |-> sel[k].flow]

(* flow = lo + F * (hi - lo) / sum(hi - lo), over the denominator of the   *)
(* response; lo when the sum is 0.                                         *)
SharesFlow(G, i) ==
    LET red == data.edges[i].hi - data.edges[i].lo
    IN IF SumReduced(G) = 0
       THEN edge_flow_values[i] = data.edges[i].lo * result.flow_den
       ELSE edge_flow_values[i] * SumReduced(G) =
                (data.edges[i].lo * SumReduced(G) + MergedFlow(G) * red) * result.flow_den

Apportioned(G) ==
    /\ MergedCap(G) = SumReduced(G)
    /\ \A k \in DOMAIN G : SharesFlow(G, G[k])
    /\ SumSeq([k \in DOMAIN G |-> edge_flow_values[G[k]]])
         = (MergedFlow(G) + SumLo(G)) * result.flow_den

(* C17 as stated: parallel edges are merged into one arc of capacity       *)
(* sum(hi - lo), and in an ok response every one of them has an entry of   *)
(* its own with flow = lo + F * (hi - lo) / sum(hi - lo), so that the      *)
(* entries of the group sum to F + sum(lo).                                *)
C17_EveryParallelEdgeReported ==
    Ok => \A G \in ParallelGroups :
            /\ Apportioned(G)
            /\ ReportedFlows(G) = [k \in DOMAIN G |-> edge_flow_values[G[k]]]

(* C17 amended: the same, but an edge whose flow is not above 1e-9 has no  *)
(* entry in the response; the entries of the group are the positive flows, *)
(* in input order, and still sum to F + sum(lo).                           *)
C17_PositiveParallelFlowsReported ==
    Ok => \A G \in ParallelGroups :
            /\ Apportioned(G)
            /\ ReportedFlows(G) =
                 LET pos == SelectSeq(G, LAMBDA i : edge_flow_values[i] > 0)
                 IN [k \in DOMAIN pos |-> edge_flow_values[pos[k]]]
            /\ SumSeq(ReportedFlows(G)) = (MergedFlow(G) + SumLo(G)) * result.flow_den

(* Two parallel edges share a positive flow of their merged arc. *)
C17_Witness ==
    /\ Ok
    /\ \E G \in ParallelGroups :
         /\ MergedFlow(G) > 0
         /\ \A k \in DOMAIN G : data.edges[G[k]].hi > data.edges[G[k]].lo
         /\ Len(ReportedFlows(G)) = Len(G)

----------------------------------------------------------------------------
(* C18: in an infeasible response every entry of cut_reachable is a node   *)
(* of the input, named as in nodes, also when the name of an unsplit node  *)
(* contains "__"; the super-source and the super-sink are no entries.      *)
C18_CutNamesAreInputNodes ==
    Infeasible =>
        /\ \A k \in DOMAIN result.cut_reachable : result.cut_reachable[k] \in Range(data.nodes)
        /\ SUPER_SOURCE \notin Range(result.cut_reachable)
        /\ SUPER_SINK \notin Range(result.cut_reachable)

====
